---------------------------- MODULE Spec2Model ----------------------------
(***************************************************************************)
(* Model of src/wiki/core/markdown/mdx/codehilite.py (django-wiki):        *)
(*   - WikiFencedBlockPreprocessor.run : the fenced-block extractor,       *)
(*     with FENCED_BLOCK_RE matched character by character in the          *)
(*     priority order of a backtracking matcher;                           *)
(*   - HiliteTreeprocessor.run : the tree pass over 'pre' elements;        *)
(*   - WikiCodeHiliteExtension.extendMarkdown : the registration of both   *)
(*     passes in the host's priority registries.                           *)
(* Text is a sequence of characters, each a string: a letter stands for   *)
(* itself, and NL, BT, DQ, SQ, STX, ETX name the newline, the backtick,    *)
(* the double and single quote and the two placeholder delimiters.         *)
(* Priorities are stored doubled (2 * priority), so that the halves true   *)
(* division produces are integers.                                         *)
(***************************************************************************)
EXTENDS Integers, Sequences, FiniteSets, TLC

VARIABLES
    lines,          \* run(lines): the argument of the current call
    text,           \* run: the local text
    m,              \* run: the local m, the result of the last search
    out,            \* run: the returned list of lines
    pc,             \* position inside WikiFencedBlockPreprocessor.run
    runs,           \* number of calls of run started so far
    iters,          \* iterations of the while loop taken by the current call
    blocks,         \* history: m.group(0) of every match, in stash order
    stash,          \* md.htmlStash.rawHtmlBlocks
    stash0,         \* history: the stash as the tree pass found it
    tree,           \* the element tree handed to HiliteTreeprocessor.run
    tree0,          \* history: the tree as it was handed in
    todo,           \* root.iter(pre): elements the generator has still to walk
    tpc,            \* position inside HiliteTreeprocessor.run
    treeprocessors, \* md.treeprocessors
    preprocessors,  \* md.preprocessors
    registeredExtensions, \* md.registeredExtensions: how often the extension is in it
    hostOps,        \* number of registrations made by the host so far
    lastOp,         \* the last operation on the pipeline
    warnings        \* names logger.warning was called for by the last extendMarkdown

vars == <<lines, text, m, out, pc, runs, iters, blocks, stash, stash0, tree, tree0, todo,
          tpc, treeprocessors, preprocessors, registeredExtensions, hostOps, lastOp,
          warnings>>

fenceVars == <<lines, text, m, out, pc, runs, iters, blocks>>
treeVars  == <<tree, tree0, todo, tpc, stash0>>
regVars   == <<treeprocessors, preprocessors, registeredExtensions, hostOps, lastOp,
               warnings>>

-----------------------------------------------------------------------------
(* Bounds *)

MaxLines == 4
MaxNodes == 4
MaxHostOps == 3
MaxCalls == 2

-----------------------------------------------------------------------------
(* Characters and sequence helpers *)

NL == "NL"
BT == "BT"
DQ == "DQ"
SQ == "SQ"
STX == "STX"
ETX == "ETX"
\* Python None where a string is expected: no character sequence equals it
None == <<"None">>
\* FENCED_BLOCK_RE.search found nothing
NoMatch == <<>>

RECURSIVE Rep(_, _)
Rep(c, n) == IF n = 0 THEN <<>> ELSE <<c>> \o Rep(c, n - 1)

RECURSIVE Flatten(_)
Flatten(ss) == IF ss = <<>> THEN <<>> ELSE Head(ss) \o Flatten(Tail(ss))

Drop(s, n) == SubSeq(s, n + 1, Len(s))

\* NL.join(lines)
RECURSIVE Join(_)
Join(ls) ==
    IF ls = <<>> THEN <<>>
    ELSE IF Len(ls) = 1 THEN ls[1]
    ELSE ls[1] \o <<NL>> \o Join(Tail(ls))

RECURSIVE IndexFrom(_, _, _)
IndexFrom(t, c, p) ==
    IF p > Len(t) THEN 0
    ELSE IF t[p] = c THEN p
    ELSE IndexFrom(t, c, p + 1)

\* text.split(NL)
RECURSIVE Split(_)
SplitAt(t, i) ==
    IF i = 0 THEN <<t>>
    ELSE <<SubSeq(t, 1, i - 1)>> \o Split(Drop(t, i))

Split(t) == SplitAt(t, IndexFrom(t, NL, 1))

-----------------------------------------------------------------------------
(* FENCED_BLOCK_RE *)

\* [a-zA-Z0-9_+-]
LangChars ==
    {"a","b","c","d","e","f","g","h","i","j","k","l","m",
     "n","o","p","q","r","s","t","u","v","w","x","y","z",
     "A","B","C","D","E","F","G","H","I","J","K","L","M",
     "N","O","P","Q","R","S","T","U","V","W","X","Y","Z",
     "0","1","2","3","4","5","6","7","8","9","_","+","-"}

HlLinesLit == <<"h","l","_","l","i","n","e","s","=">>

\* number of consecutive characters of S in t from position p
RECURSIVE RunLen(_, _, _)
RunLen(t, p, S) ==
    IF p <= Len(t) /\ t[p] \in S THEN 1 + RunLen(t, p + 1, S) ELSE 0

\* ^ under re.MULTILINE
Caret(t, p) == p = 1 \/ t[p - 1] = NL

\* $ under re.MULTILINE
Dollar(t, p) == p = Len(t) + 1 \/ t[p] = NL

\* the literal s at position p
LitAt(t, p, s) ==
    /\ p + Len(s) - 1 <= Len(t)
    /\ SubSeq(t, p, p + Len(s) - 1) = s

\* the end positions p + n, p + n - 1, .. p + lo
CountDown(p, n, lo) ==
    IF n < lo THEN <<>> ELSE [k \in 1..(n - lo + 1) |-> p + n - (k - 1)]

\* X{lo,} and X*, greedy: the end positions, longest first
GreedyRun(t, p, S, lo) == CountDown(p, RunLen(t, p, S), lo)

\* c?, greedy: with the character first, then without
OptChar(t, p, c) ==
    IF p <= Len(t) /\ t[p] = c THEN <<p + 1, p>> ELSE <<p>>

\* .*? under re.DOTALL: the end positions, shortest first
LazyAny(t, p) == [k \in 1..(Len(t) + 2 - p) |-> p + (k - 1)]

\* the candidate c moved to each of the positions ends
MovedTo(c, ends) == [k \in 1..Len(ends) |-> [c EXCEPT !.pos = ends[k]]]

\* a fence that ends at each of the positions ends
FencesTo(t, p, ends) ==
    [k \in 1..Len(ends) |->
        [pos |-> ends[k], fence |-> SubSeq(t, p, ends[k] - 1),
         lang |-> None, hl |-> None]]

\* (?P<fence>^(?:~{3,}|BT{3,}))
ReFence(t, p) ==
    IF ~Caret(t, p) THEN <<>>
    ELSE FencesTo(t, p, GreedyRun(t, p, {"~"}, 3) \o GreedyRun(t, p, {BT}, 3))

\* [ ]*
ReSpaces(t, c) == MovedTo(c, GreedyRun(t, c.pos, {" "}, 0))

\* (?P<lang>[a-zA-Z0-9_+-]*) from position p
LangsTo(t, c, p, ends) ==
    [k \in 1..Len(ends) |->
        [c EXCEPT !.pos = ends[k], !.lang = SubSeq(t, p, ends[k] - 1)]]

ReLangAt(t, c, p) == LangsTo(t, c, p, GreedyRun(t, p, LangChars, 0))

\* \.?(?P<lang>...) from each of the positions ps
ReDotLang(t, c, ps) ==
    Flatten([i \in 1..Len(ps) |->
        Flatten([j \in 1..Len(OptChar(t, ps[i], ".")) |->
            ReLangAt(t, c, OptChar(t, ps[i], ".")[j])])])

\* (\{?\.?(?P<lang>[a-zA-Z0-9_+-]*))? : the group first, then without it
ReLang(t, c) == ReDotLang(t, c, OptChar(t, c.pos, "{")) \o <<c>>

\* (?P<hl_lines>.*?)(?P=quot) with the opening quote at position q
HlTo(t, c, q, ends) ==
    Flatten([k \in 1..Len(ends) |->
        IF ends[k] <= Len(t) /\ t[ends[k]] = t[q]
        THEN <<[c EXCEPT !.pos = ends[k] + 1,
                         !.hl = SubSeq(t, q + 1, ends[k] - 1)]>>
        ELSE <<>>])

\* hl_lines=(?P<quot>DQ|SQ)(?P<hl_lines>.*?)(?P=quot) with the quote at q
ReHlQuoted(t, c, q) ==
    IF LitAt(t, c.pos, HlLinesLit) /\ q <= Len(t) /\ t[q] \in {DQ, SQ}
    THEN HlTo(t, c, q, LazyAny(t, q + 1))
    ELSE <<>>

\* (hl_lines=(?P<quot>DQ|SQ)(?P<hl_lines>.*?)(?P=quot))? : the group first
ReHlLines(t, c) == ReHlQuoted(t, c, c.pos + Len(HlLinesLit)) \o <<c>>

\* }?
ReBrace(t, c) == MovedTo(c, OptChar(t, c.pos, "}"))

\* \n
ReNewline(t, c) ==
    IF c.pos <= Len(t) /\ t[c.pos] = NL THEN <<[c EXCEPT !.pos = c.pos + 1]>> ELSE <<>>

\* $ at one of the positions ends: those where it holds
AtDollar(t, ends) ==
    Flatten([k \in 1..Len(ends) |-> IF Dollar(t, ends[k]) THEN <<ends[k]>> ELSE <<>>])

\* (?<=\n)(?P=fence)[ ]*$ at position q: the end positions of the match
CloseAtPrefix(t, q, fence) ==
    IF q > 1 /\ t[q - 1] = NL /\ LitAt(t, q, fence)
    THEN GreedyRun(t, q + Len(fence), {" "}, 0)
    ELSE <<>>
CloseAt(t, q, fence) ==
    IF q > 1 /\ t[q - 1] = NL /\ LitAt(t, q, fence)
    THEN AtDollar(t, GreedyRun(t, q + Len(fence), {" "}, 0))
    ELSE <<>>

\* (?P<code>.*?)(?<=\n)(?P=fence)[ ]*$ : the first way to finish from candidate
\* c, the code ending before position q
RECURSIVE ReCodeFrom(_, _, _)
CodeTo(t, c, q, ends) ==
    IF ends # <<>>
    THEN <<[c EXCEPT !.pos = ends[1]] @@ [code |-> SubSeq(t, c.pos, q - 1)]>>
    ELSE ReCodeFrom(t, c, q + 1)

ReCodeFrom(t, c, q) ==
    IF q > Len(t) + 1 THEN <<>>
    ELSE CodeTo(t, c, q, CloseAt(t, q, c.fence))

ReCode(t, c) == ReCodeFrom(t, c, c.pos)

\* each piece applied to every candidate, in order
SpacesAll(t, cs) == Flatten([i \in 1..Len(cs) |-> ReSpaces(t, cs[i])])
LangAll(t, cs) == Flatten([i \in 1..Len(cs) |-> ReLang(t, cs[i])])
HlLinesAll(t, cs) == Flatten([i \in 1..Len(cs) |-> ReHlLines(t, cs[i])])
BraceAll(t, cs) == Flatten([i \in 1..Len(cs) |-> ReBrace(t, cs[i])])
NewlineAll(t, cs) == Flatten([i \in 1..Len(cs) |-> ReNewline(t, cs[i])])
CodeAll(t, cs) == Flatten([i \in 1..Len(cs) |-> ReCode(t, cs[i])])

\* the pattern up to the newline that ends the opening line, anchored at p:
\* the candidates in the matcher's priority order
ReHeader(t, p) ==
    NewlineAll(t, SpacesAll(t, BraceAll(t, SpacesAll(t, HlLinesAll(t,
        SpacesAll(t, LangAll(t, SpacesAll(t, ReFence(t, p)))))))))

\* the match object of the first of the matches ms found at p
MatchObject(p, ms) ==
    IF ms = <<>> THEN NoMatch
    ELSE <<[start |-> p, end |-> ms[1].pos, fence |-> ms[1].fence,
            lang |-> ms[1].lang, hl |-> ms[1].hl, code |-> ms[1].code]>>

\* the whole pattern anchored at p
MatchAt(t, p) ==
    IF ReFence(t, p) = <<>> THEN NoMatch
    ELSE MatchObject(p, CodeAll(t, ReHeader(t, p)))

\* FENCED_BLOCK_RE.search(text): the match at the leftmost position that has one
RECURSIVE SearchFrom(_, _)
FirstOr(mo, t, p) == IF mo # NoMatch THEN mo ELSE SearchFrom(t, p + 1)

SearchFrom(t, p) ==
    IF p > Len(t) + 1 THEN NoMatch
    ELSE FirstOr(MatchAt(t, p), t, p)

Search(t) == SearchFrom(t, 1)

-----------------------------------------------------------------------------
(* highlight and the host's HtmlStash *)

\* highlight(code, config, tab_length, lang): the external highlighter's output
\* wrapped in the codehilite-wrap div, an opaque function of code and lang
highlight(code, lang) == [wrap |-> "codehilite-wrap", code |-> code, lang |-> lang]

Digits == <<"0","1","2","3","4","5","6","7","8","9">>

\* the placeholder htmlStash.store returns for the entry of index n (from 0)
Placeholder(n) ==
    <<STX, "w", "z", "x", "h", "z", "d", "k", ":">> \o <<Digits[n + 1]>> \o <<ETX>>

-----------------------------------------------------------------------------
(* WikiFencedBlockPreprocessor.run *)

\* text = (text[: m.start()], NL, placeholder, NL, text[m.end() :]) joined
SubstituteShifted(t, mo, placeholder) ==
    SubSeq(t, 1, mo.start - 1) \o <<NL>> \o placeholder \o <<NL>> \o Drop(t, mo.end)
Substitute(t, mo, placeholder) ==
    SubSeq(t, 1, mo.start - 1) \o <<NL>> \o placeholder \o <<NL>> \o Drop(t, mo.end - 1)

\* lang is the empty string unless group lang matched a non-empty one
LangOf(mo) == IF mo.lang = None \/ mo.lang = <<>> THEN <<>> ELSE mo.lang

RunStart ==
    /\ pc = "start"
    /\ text' = Join(lines)
    /\ pc' = "search"
    /\ UNCHANGED <<lines, m, out, runs, iters, blocks, stash>>
    /\ UNCHANGED <<treeVars, regVars>>

\* m = self.FENCED_BLOCK_RE.search(text)
RunSearch ==
    /\ pc = "search"
    /\ m' = Search(text)
    /\ pc' = "test"
    /\ UNCHANGED <<lines, text, out, runs, iters, blocks, stash>>
    /\ UNCHANGED <<treeVars, regVars>>

\* if m: the block is highlighted, stored and replaced by its placeholder
RunMatch ==
    /\ pc = "test"
    /\ m # NoMatch
    /\ stash' = Append(stash, highlight(m[1].code, LangOf(m[1])))
    /\ text' = Substitute(text, m[1], Placeholder(Len(stash)))
    /\ blocks' = Append(blocks, SubSeq(text, m[1].start, m[1].end - 1))
    /\ iters' = iters + 1
    /\ pc' = "search"
    /\ UNCHANGED <<lines, m, out, runs>>
    /\ UNCHANGED <<treeVars, regVars>>

\* else: break, and return text.split(NL)
RunReturn ==
    /\ pc = "test"
    /\ m = NoMatch
    /\ out' = Split(text)
    /\ pc' = "done"
    /\ UNCHANGED <<lines, text, m, runs, iters, blocks, stash>>
    /\ UNCHANGED <<treeVars, regVars>>

\* the host hands the returned lines to run once more
RunAgain ==
    /\ pc = "done"
    /\ runs = 1
    /\ lines' = out
    /\ runs' = runs + 1
    /\ iters' = 0
    /\ pc' = "start"
    /\ UNCHANGED <<text, m, out, blocks, stash>>
    /\ UNCHANGED <<treeVars, regVars>>

-----------------------------------------------------------------------------
(* Inputs of run *)

Bt3 == Rep(BT, 3)
Bt4 == Rep(BT, 4)
Ti3 == Rep("~", 3)

LineVocab ==
    { Bt3, Bt4,
      Ti3 \o <<" ">>,
      <<"a">>,
      Bt3 \o <<"p", "y">>,
      Bt3 \o <<"{", ".", "p", "y", " ">> \o HlLinesLit \o <<SQ, "1", SQ, "}">>,
      Bt3 \o HlLinesLit \o <<DQ>>,
      <<DQ>> }

RECURSIVE SeqsUpTo(_, _)
SeqsUpTo(S, n) ==
    IF n = 0 THEN {<<>>}
    ELSE LET shorter == SeqsUpTo(S, n - 1)
         IN  shorter \cup {Append(s, x) : s \in {r \in shorter : Len(r) = n - 1}, x \in S}

IdleTree == <<>>
IdleRegistry == [priority |-> <<>>, is_sorted |-> TRUE]

InitFence ==
    /\ lines \in SeqsUpTo(LineVocab, MaxLines)
    /\ text = <<>>
    /\ m = NoMatch
    /\ out = <<>>
    /\ pc = "start"
    /\ runs = 1
    /\ iters = 0
    /\ blocks = <<>>
    /\ stash = <<>>
    /\ tree = IdleTree /\ tree0 = IdleTree /\ todo = <<>> /\ tpc = "idle"
    /\ stash0 = <<>>
    /\ treeprocessors = IdleRegistry /\ preprocessors = IdleRegistry
    /\ registeredExtensions = 0 /\ hostOps = 0 /\ lastOp = "idle" /\ warnings = {}

NextFence == RunStart \/ RunSearch \/ RunMatch \/ RunReturn \/ RunAgain

SpecFence == InitFence /\ [][NextFence]_vars


-----------------------------------------------------------------------------
(* HiliteTreeprocessor.run.  The tree is a function from element ids to        *)
(* elements; an element has a tag, a text, a tail and the list of its          *)
(* children.  Element 1 is the root.                                           *)

\* len(block) == 1 and block[0].tag == code
IsCodeBlockAnyChild(tr, n) == Len(tr[n].kids) = 1
IsCodeBlock(tr, n) ==
    /\ Len(tr[n].kids) = 1
    /\ tr[tr[n].kids[1]].tag = "code"

\* block.clear(); block.tag = p; block.text = placeholder
Replaced(placeholder) ==
    [tag |-> "p", text |-> placeholder, tail |-> None, kids |-> <<>>]

\* blocks = root.iter(pre): the generator starts at the root
TreeStart ==
    /\ tpc = "start"
    /\ todo' = <<1>>
    /\ tpc' = "iter"
    /\ UNCHANGED <<tree, tree0, stash, stash0>>
    /\ UNCHANGED <<fenceVars, regVars>>

\* the generator yields a pre element that is a code block: it is highlighted,
\* stored and turned into a p holding the placeholder; the generator then
\* walks the children the element has left
TreeReplace ==
    /\ tpc = "iter"
    /\ todo # <<>>
    /\ LET block == Head(todo)
       IN  /\ tree[block].tag = "pre"
           /\ IsCodeBlock(tree, block)
           /\ stash' = Append(stash, highlight(tree[tree[block].kids[1]].text, None))
           /\ tree' = [tree EXCEPT ![block] = Replaced(Placeholder(Len(stash)))]
           /\ todo' = tree'[block].kids \o Tail(todo)
    /\ UNCHANGED <<tree0, tpc, stash0>>
    /\ UNCHANGED <<fenceVars, regVars>>

\* the generator passes an element that is no pre, or yields a pre that is no
\* code block, and walks its children
TreeSkip ==
    /\ tpc = "iter"
    /\ todo # <<>>
    /\ LET block == Head(todo)
       IN  /\ ~(tree[block].tag = "pre" /\ IsCodeBlock(tree, block))
           /\ todo' = tree[block].kids \o Tail(todo)
    /\ UNCHANGED <<tree, tree0, tpc, stash, stash0>>
    /\ UNCHANGED <<fenceVars, regVars>>

\* the generator is exhausted
TreeReturn ==
    /\ tpc = "iter"
    /\ todo = <<>>
    /\ tpc' = "done"
    /\ UNCHANGED <<tree, tree0, todo, stash, stash0>>
    /\ UNCHANGED <<fenceVars, regVars>>

Tags == {"pre", "code", "div"}

\* the children of n under the parent map par, in document order
RECURSIVE KidsFrom(_, _, _, _)
KidsFrom(par, n, k, size) ==
    IF k > size THEN <<>>
    ELSE (IF par[k] = n THEN <<k>> ELSE <<>>) \o KidsFrom(par, n, k + 1, size)

\* the trees of size elements: every element but the root has an earlier parent
TreesOfSize(size) ==
    { [n \in 1..size |->
          [tag |-> tags[n], text |-> <<Digits[n + 1]>>, tail |-> <<"t">>,
           kids |-> KidsFrom(par, n, 2, size)]] :
      par \in {f \in [2..size -> 1..size] : \A k \in 2..size : f[k] < k},
      tags \in [1..size -> Tags] }

\* what the fenced-block extractor may have stored before the tree pass runs
EarlierStashes == {<<>>, <<highlight(<<"a", NL>>, <<>>)>>}

InitTree ==
    /\ \E size \in 1..MaxNodes : tree \in TreesOfSize(size)
    /\ tree0 = tree
    /\ stash \in EarlierStashes
    /\ stash0 = stash
    /\ todo = <<>>
    /\ tpc = "start"
    /\ lines = <<>> /\ text = <<>> /\ m = NoMatch /\ out = <<>> /\ pc = "idle"
    /\ runs = 0 /\ iters = 0 /\ blocks = <<>>
    /\ treeprocessors = IdleRegistry /\ preprocessors = IdleRegistry
    /\ registeredExtensions = 0 /\ hostOps = 0 /\ lastOp = "idle" /\ warnings = {}

NextTree == TreeStart \/ TreeReplace \/ TreeSkip \/ TreeReturn

SpecTree == InitTree /\ [][NextTree]_vars

-----------------------------------------------------------------------------
(* The host's Registry (md.treeprocessors, md.preprocessors): the list         *)
(* _priority of (name, priority) items and the flag _is_sorted.  One name is   *)
(* held once.  Indices are those of Python, from 0.                            *)

\* a priority p as it is stored: doubled
Dbl(p) == 2 * p

\* list[i], i from 0
At(list, i) == list[i + 1]

\* name in registry
Contains(reg, name) == \E k \in 1..Len(reg.priority) : reg.priority[k].name = name

\* the place of item in a list sorted by priority, highest first: behind every
\* item of the same or a higher priority (the sort is stable)
InsertByPriority(sorted, item) ==
    LET k == Cardinality({j \in 1..Len(sorted) : sorted[j].priority >= item.priority})
    IN  SubSeq(sorted, 1, k) \o <<item>> \o Drop(sorted, k)

\* list.sort(key=priority, reverse=True)
RECURSIVE SortedByPriority(_)
SortedByPriority(list) ==
    IF list = <<>> THEN <<>>
    ELSE InsertByPriority(SortedByPriority(SubSeq(list, 1, Len(list) - 1)), list[Len(list)])

\* Registry._sort
Sort(reg) ==
    IF reg.is_sorted THEN reg
    ELSE [priority |-> SortedByPriority(reg.priority), is_sorted |-> TRUE]

\* Registry.get_index_for_name, on the registry it has sorted
IndexInSorted(reg, name) ==
    (CHOOSE k \in 1..Len(reg.priority) : reg.priority[k].name = name) - 1

\* Registry.deregister, and del registry[name]
Deregister(reg, name) ==
    LET r == Sort(reg)
        i == IndexInSorted(r, name)
    IN  [r EXCEPT !.priority = SubSeq(r.priority, 1, i) \o Drop(r.priority, i + 1)]

\* Registry.register
Register(reg, name, priority) ==
    LET r == IF Contains(reg, name) THEN Deregister(reg, name) ELSE reg
    IN  [priority |-> Append(r.priority, [name |-> name, priority |-> priority]),
         is_sorted |-> FALSE]

\* len(registry)
Length(reg) == Len(reg.priority)

-----------------------------------------------------------------------------
(* WikiCodeHiliteExtension.extendMarkdown *)

DefaultGap == 10

\* priority = before - ((before - after) / 2), on doubled priorities
InterpolateFloor(before, after) == before - 2 * ((before - after) \div 4)
InterpolateNoHalving(before, after) == before
Interpolate(before, after) == before - ((before - after) \div 2)

\* if name in registry: logger.warning(...); del registry[name]
RemoveExisting(reg, name) ==
    IF Contains(reg, name) THEN Deregister(reg, name) ELSE reg

\* the priority the tree pass is registered at
HilitePriority(reg) ==
    LET r == Sort(reg)
        i == IndexInSorted(r, "inline")
        after == At(r.priority, i).priority
        before == IF i > 0 THEN At(r.priority, i - 1).priority
                  ELSE after + Dbl(DefaultGap)
    IN  Interpolate(before, after)

\* the priority the preprocessor is registered at
FencedPriority(reg) ==
    LET r == Sort(reg)
        i == IndexInSorted(r, "normalize_whitespace")
        before == At(r.priority, i).priority
        after == IF i < Length(r) - 1 THEN At(r.priority, i + 1).priority
                 ELSE before - Dbl(DefaultGap)
    IN  Interpolate(before, after)

\* the part of extendMarkdown on md.treeprocessors
ExtendTreeNoRemove(reg) == Register(Sort(reg), "hilite", HilitePriority(reg))
ExtendTree(reg) ==
    LET r == RemoveExisting(reg, "hilite")
    IN  Register(Sort(r), "hilite", HilitePriority(r))

\* the part of extendMarkdown on md.preprocessors
ExtendPre(reg) ==
    LET r == RemoveExisting(reg, "fenced_code_block")
    IN  Register(Sort(r), "fenced_code_block", FencedPriority(r))

extendMarkdown ==
    /\ registeredExtensions < MaxCalls
    /\ treeprocessors' = ExtendTree(treeprocessors)
    /\ preprocessors' = ExtendPre(preprocessors)
    /\ warnings' = {n \in {"hilite"} : Contains(treeprocessors, n)}
                   \cup {n \in {"fenced_code_block"} : Contains(preprocessors, n)}
    /\ registeredExtensions' = registeredExtensions + 1
    /\ lastOp' = "ext"
    /\ UNCHANGED hostOps
    /\ UNCHANGED <<fenceVars, stash, treeVars>>

-----------------------------------------------------------------------------
(* The host: the pipeline as Markdown builds it, and other code registering    *)
(* passes on it before or after the extension is set up                        *)

HostPriorities == {20, 25, 30}
HostTreeNames == {"inline", "hilite", "x"}
HostPreNames == {"normalize_whitespace", "fenced_code_block", "y"}

HostRegisterTree ==
    /\ hostOps < MaxHostOps
    /\ \E name \in HostTreeNames, p \in HostPriorities :
          treeprocessors' = Register(treeprocessors, name, Dbl(p))
    /\ hostOps' = hostOps + 1
    /\ lastOp' = "host"
    /\ UNCHANGED <<preprocessors, registeredExtensions, warnings>>
    /\ UNCHANGED <<fenceVars, stash, treeVars>>

HostRegisterPre ==
    /\ hostOps < MaxHostOps
    /\ \E name \in HostPreNames, p \in HostPriorities :
          preprocessors' = Register(preprocessors, name, Dbl(p))
    /\ hostOps' = hostOps + 1
    /\ lastOp' = "host"
    /\ UNCHANGED <<treeprocessors, registeredExtensions, warnings>>
    /\ UNCHANGED <<fenceVars, stash, treeVars>>

InitReg ==
    /\ treeprocessors =
          [priority |-> <<[name |-> "inline", priority |-> Dbl(20)],
                          [name |-> "prettify", priority |-> Dbl(10)]>>,
           is_sorted |-> FALSE]
    /\ preprocessors =
          [priority |-> <<[name |-> "normalize_whitespace", priority |-> Dbl(30)],
                          [name |-> "html_block", priority |-> Dbl(20)]>>,
           is_sorted |-> FALSE]
    /\ registeredExtensions = 0
    /\ hostOps = 0
    /\ lastOp = "init"
    /\ warnings = {}
    /\ lines = <<>> /\ text = <<>> /\ m = NoMatch /\ out = <<>> /\ pc = "idle"
    /\ runs = 0 /\ iters = 0 /\ blocks = <<>> /\ stash = <<>>
    /\ tree = IdleTree /\ tree0 = IdleTree /\ todo = <<>> /\ tpc = "idle"
    /\ stash0 = <<>>
    /\ stash0 = <<>>

NextReg == extendMarkdown \/ HostRegisterTree \/ HostRegisterPre

SpecReg == InitReg /\ [][NextReg]_vars

-----------------------------------------------------------------------------
(* Vocabulary of the statements about run, read off the lines alone *)

\* the run of 3 or more tildes or backticks a line starts with, or the empty sequence
FenceRun(l) ==
    IF RunLen(l, 1, {"~"}) >= 3 THEN SubSeq(l, 1, RunLen(l, 1, {"~"}))
    ELSE IF RunLen(l, 1, {BT}) >= 3 THEN SubSeq(l, 1, RunLen(l, 1, {BT}))
    ELSE <<>>

IsFenceLine(l) == FenceRun(l) # <<>>

\* the line is the fence string f, followed by spaces at most
ClosesLine(l, f) ==
    /\ Len(l) >= Len(f)
    /\ SubSeq(l, 1, Len(f)) = f
    /\ \A k \in (Len(f) + 1)..Len(l) : l[k] = " "

NumFenceLines(ls) == Cardinality({i \in 1..Len(ls) : IsFenceLine(ls[i])})

\* every line followed by a newline
RECURSIVE JoinNL(_)
JoinNL(ls) == IF ls = <<>> THEN <<>> ELSE ls[1] \o <<NL>> \o JoinNL(Tail(ls))

IsPlaceholderLine(l) == \E n \in 0..9 : l = Placeholder(n)

NumPlaceholderLines(ls) == Cardinality({i \in 1..Len(ls) : IsPlaceholderLine(ls[i])})

\* first position at or after p where the sequence s occurs in t, or 0
RECURSIVE FindSub(_, _, _)
FindSub(t, s, p) ==
    IF p + Len(s) - 1 > Len(t) THEN 0
    ELSE IF SubSeq(t, p, p + Len(s) - 1) = s THEN p
    ELSE FindSub(t, s, p + 1)

\* t with the first occurrence of the token tok replaced by the sequence by
ReplaceToken(t, tok, by) ==
    LET i == FindSub(t, tok, 1)
    IN  IF i = 0 THEN <<"missing">>
        ELSE SubSeq(t, 1, i - 1) \o by \o Drop(t, i + Len(tok) - 1)

\* t with the placeholders n, n-1, .. 1 replaced back by the blocks they stand
\* for, the placeholder being surrounded by the characters pad
RECURSIVE Restore(_, _, _)
Restore(t, n, pad) ==
    IF n = 0 THEN t
    ELSE Restore(ReplaceToken(t, pad \o Placeholder(n - 1) \o pad, blocks[n]), n - 1, pad)

\* the block runs from a line that opens a fence through a line that closes it
IsFenceSpan(b) ==
    LET bl == Split(b)
    IN  /\ Len(bl) >= 2
        /\ IsFenceLine(bl[1])
        /\ ClosesLine(bl[Len(bl)], FenceRun(bl[1]))

-----------------------------------------------------------------------------
(* C1 *)

\* an opening fence line: the fence, then a language tag at most
IsPlainOpener(l) ==
    /\ IsFenceLine(l)
    /\ \A k \in (Len(FenceRun(l)) + 1)..Len(l) : l[k] \in LangChars

\* a closing fence line for the opening fence f: the same character only,
\* as many times as in f or more
IsLongerCloser(l, f) ==
    /\ Len(l) >= Len(f)
    /\ \A k \in 1..Len(l) : l[k] = f[1]

\* the number of well-formed blocks the lines are made of, or -1
RECURSIVE WellFormedFrom(_, _, _)
WellFormedFrom(ls, i, open) ==
    IF i > Len(ls) THEN (IF open = <<>> THEN 0 ELSE -1)
    ELSE IF open = <<>>
         THEN IF IsPlainOpener(ls[i]) THEN WellFormedFrom(ls, i + 1, FenceRun(ls[i]))
              ELSE -1
         ELSE IF ~IsFenceLine(ls[i]) THEN WellFormedFrom(ls, i + 1, open)
         ELSE IF IsLongerCloser(ls[i], open)
              THEN LET rest == WellFormedFrom(ls, i + 1, <<>>)
                   IN  IF rest < 0 THEN -1 ELSE rest + 1
              ELSE -1

WellFormedBlocks(ls) == WellFormedFrom(ls, 1, <<>>)

\* C1: when the input is made of well-formed fenced blocks (opening fence line,
\* body, closing fence line of the same character and of equal or greater
\* length), run stores one stash entry and puts one placeholder per block.
C1_OnePlaceholderPerBlock ==
    (runs = 1 /\ pc = "done" /\ WellFormedBlocks(lines) >= 1) =>
        /\ Len(stash) = WellFormedBlocks(lines)
        /\ NumPlaceholderLines(out) = WellFormedBlocks(lines)

-----------------------------------------------------------------------------
(* C2 *)

\* C2 as amended: the returned lines, joined, are the input text with the exact
\* span of every block (opening fence through closing fence) replaced by a
\* newline, the placeholder of the block and a newline, nothing else changed.
C2_SpansReplacedByPlaceholderLines ==
    (runs = 1 /\ pc = "done") =>
        /\ Restore(Join(out), Len(blocks), <<NL>>) = Join(lines)
        /\ Len(blocks) = Len(stash)
        /\ \A k \in 1..Len(blocks) : IsFenceSpan(blocks[k])

\* C2 as stated: each span is replaced by the placeholder token alone.
C2_SpansReplacedByPlaceholders ==
    (runs = 1 /\ pc = "done") =>
        Restore(Join(out), Len(blocks), <<>>) = Join(lines)

C2_Witness ==
    /\ runs = 1 /\ pc = "done"
    /\ Len(blocks) >= 1
    /\ ~IsFenceLine(lines[1])
    /\ ~IsFenceLine(lines[Len(lines)])

-----------------------------------------------------------------------------
(* C3 *)

\* some line opens a fence, and no fence line has a later line closing its fence
Unterminated(ls) ==
    /\ \E i \in 1..Len(ls) : IsFenceLine(ls[i])
    /\ \A i \in 1..Len(ls) : IsFenceLine(ls[i]) =>
          \A j \in (i + 1)..Len(ls) : ~ClosesLine(ls[j], FenceRun(ls[i]))

\* C3: an input with an opening fence, where no fence has a later line that is
\* the same fence string, comes back as it went in and nothing is stored.
C3_UnterminatedLeftAlone ==
    (runs = 1 /\ pc = "done" /\ Unterminated(lines)) =>
        /\ out = lines
        /\ stash = <<>>
        /\ iters = 0

C3_Witness ==
    /\ runs = 1 /\ pc = "done"
    /\ Unterminated(lines)
    /\ Len(lines) >= 3
    /\ IsFenceLine(lines[1])
    /\ \E j \in 2..Len(lines) : IsFenceLine(lines[j])

-----------------------------------------------------------------------------
(* C8 *)

\* the line without its hl_lines attribute (the attribute runs to its closing
\* quote, or to the end of the line when the quote is not closed on the line)
StripHl(l) ==
    LET i == FindSub(l, HlLinesLit, 1)
        q == i + Len(HlLinesLit)
    IN  IF i = 0 \/ q > Len(l) THEN l
        ELSE IF l[q] \notin {DQ, SQ} THEN l
        ELSE LET j == IndexFrom(l, l[q], q + 1)
             IN  IF j = 0 THEN SubSeq(l, 1, i - 1)
                 ELSE SubSeq(l, 1, i - 1) \o Drop(l, j)

\* the language tag of an opening fence line: what follows the fence, spaces,
\* an opening brace and a dot, as far as tag characters go
TagOf(l) ==
    LET r == StripHl(l)
        p1 == Len(FenceRun(r)) + 1
        p2 == p1 + RunLen(r, p1, {" "})
        p3 == IF p2 <= Len(r) /\ r[p2] = "{" THEN p2 + 1 ELSE p2
        p4 == IF p3 <= Len(r) /\ r[p3] = "." THEN p3 + 1 ELSE p3
    IN  SubSeq(r, p4, p4 + RunLen(r, p4, LangChars) - 1)

\* the lines strictly between the first and the last line of a block
BodyLines(b) == LET bl == Split(b) IN SubSeq(bl, 2, Len(bl) - 1)

\* C8: for every matched block the highlighter gets the tag of the opening
\* fence line as language (the empty string without a tag) and the lines between
\* the opening and the closing fence line, each ended by a newline, as code; an
\* hl_lines attribute changes neither.
C8_LanguageAndBody ==
    \A k \in 1..Len(blocks) :
        /\ stash[k].lang = TagOf(Split(blocks[k])[1])
        /\ stash[k].code = JoinNL(BodyLines(blocks[k]))

\* the part of C8 about the language alone
C8_LanguageOnly ==
    \A k \in 1..Len(blocks) : stash[k].lang = TagOf(Split(blocks[k])[1])

-----------------------------------------------------------------------------
(* C10 *)

\* the block ends at the nearest line after its first that closes its fence
EndsAtNearestClose(b) ==
    LET bl == Split(b)
    IN  /\ IsFenceSpan(b)
        /\ \A i \in 2..(Len(bl) - 1) : ~ClosesLine(bl[i], FenceRun(bl[1]))

\* fence lines of the other marker character inside the block are lines of code
OtherFencesKept(b, code) ==
    LET bl == Split(b)
    IN  \A i \in 2..(Len(bl) - 1) :
            (IsFenceLine(bl[i]) /\ bl[i][1] # bl[1][1]) =>
                \E j \in 1..Len(Split(code)) : Split(code)[j] = bl[i]

\* C10, the iteration bound: the loop runs at most once per fence line of the input
C10_IterationBound ==
    (runs = 1) => iters <= NumFenceLines(lines)

\* C10, the result: nothing matchable is left, and a second call changes nothing
C10_FixedPoint ==
    /\ (pc = "done") => Search(Join(out)) = NoMatch
    /\ (runs = 2 /\ pc = "done") => (out = lines /\ iters = 0)

\* C10, the shape of each replaced block
C10_BlockShape ==
    \A k \in 1..Len(blocks) :
        /\ EndsAtNearestClose(blocks[k])
        /\ OtherFencesKept(blocks[k], stash[k].code)

\* C10: the loop terminates within as many iterations as the input has fence
\* lines; each iteration replaces a block that runs from its opening fence to
\* the nearest later line that is the same fence string, fence lines of the
\* other marker in between being kept as code; the returned text has no
\* matchable block and a second call returns it unchanged, storing nothing.
C10_LoopTerminates ==
    /\ C10_IterationBound
    /\ C10_BlockShape
    /\ C10_FixedPoint

-----------------------------------------------------------------------------
(* Vocabulary of the statements about extendMarkdown *)

\* the passes in the order they run
Ordered(reg) == Sort(reg).priority

\* the ordered passes other than name
OrderedWithout(reg, name) == SelectSeq(Ordered(reg), LAMBDA it : it.name # name)

\* the place of name in a list of passes, from 1, or 0
Place(list, name) ==
    IF \E k \in 1..Len(list) : list[k].name = name
    THEN CHOOSE k \in 1..Len(list) : list[k].name = name
    ELSE 0

Count(reg, name) ==
    Cardinality({k \in 1..Len(reg.priority) : reg.priority[k].name = name})

PriorityOf(reg, name) == Ordered(reg)[Place(Ordered(reg), name)].priority

\* inline has a pass before it, and normalize_whitespace a pass after it, among
\* the passes the extension finds once it has removed its own
InlineHasPredecessor == Place(OrderedWithout(treeprocessors, "hilite"), "inline") > 1

WhitespaceHasSuccessor ==
    Place(OrderedWithout(preprocessors, "fenced_code_block"), "normalize_whitespace")
        < Len(OrderedWithout(preprocessors, "fenced_code_block"))

InlinePredecessor ==
    LET l == OrderedWithout(treeprocessors, "hilite")
    IN  l[Place(l, "inline") - 1]

WhitespaceSuccessor ==
    LET l == OrderedWithout(preprocessors, "fenced_code_block")
    IN  l[Place(l, "normalize_whitespace") + 1]

-----------------------------------------------------------------------------
(* C4 *)

C4_ExactlyOne ==
    (lastOp = "ext") =>
        /\ Count(treeprocessors, "hilite") = 1
        /\ Count(preprocessors, "fenced_code_block") = 1

C4_SecondLeavesInPlace ==
    (lastOp = "ext" /\ lastOp' = "ext") =>
        /\ Ordered(treeprocessors') = Ordered(treeprocessors)
        /\ Ordered(preprocessors') = Ordered(preprocessors)

\* C4: after one or more extendMarkdown calls the tree passes hold exactly one
\* hilite and the preprocessors exactly one fenced_code_block, and a call that
\* follows a call leaves every pass at its priority and place in the order.
C4_RegisteredOnce == []C4_ExactlyOne /\ [][C4_SecondLeavesInPlace]_vars

C4_Witness ==
    /\ lastOp = "ext"
    /\ registeredExtensions = 2
    /\ warnings = {"hilite", "fenced_code_block"}
    /\ Len(treeprocessors.priority) >= 4

-----------------------------------------------------------------------------
(* C5 *)

\* C5: after extendMarkdown, hilite runs strictly between the pass that ran
\* immediately before inline and inline, and fenced_code_block strictly between
\* normalize_whitespace and the pass that ran immediately after it, also when
\* neighbouring passes share a priority.
C5_StrictlyBetween ==
    (lastOp = "ext") =>
        /\ InlineHasPredecessor =>
              /\ Place(Ordered(treeprocessors), InlinePredecessor.name) + 1
                    = Place(Ordered(treeprocessors), "hilite")
              /\ Place(Ordered(treeprocessors), "hilite") + 1
                    = Place(Ordered(treeprocessors), "inline")
        /\ WhitespaceHasSuccessor =>
              /\ Place(Ordered(preprocessors), "normalize_whitespace") + 1
                    = Place(Ordered(preprocessors), "fenced_code_block")
              /\ Place(Ordered(preprocessors), "fenced_code_block") + 1
                    = Place(Ordered(preprocessors), WhitespaceSuccessor.name)

\* the same, for neighbours of different priorities only
C5_BetweenWhenDistinct ==
    (lastOp = "ext") =>
        /\ (InlineHasPredecessor
              /\ InlinePredecessor.priority # PriorityOf(treeprocessors, "inline")) =>
              /\ Place(Ordered(treeprocessors), InlinePredecessor.name) + 1
                    = Place(Ordered(treeprocessors), "hilite")
              /\ Place(Ordered(treeprocessors), "hilite") + 1
                    = Place(Ordered(treeprocessors), "inline")
        /\ (WhitespaceHasSuccessor
              /\ WhitespaceSuccessor.priority
                    # PriorityOf(preprocessors, "normalize_whitespace")) =>
              /\ Place(Ordered(preprocessors), "normalize_whitespace") + 1
                    = Place(Ordered(preprocessors), "fenced_code_block")
              /\ Place(Ordered(preprocessors), "fenced_code_block") + 1
                    = Place(Ordered(preprocessors), WhitespaceSuccessor.name)

-----------------------------------------------------------------------------
(* C6 *)

\* C6 as amended: with inline first, hilite is registered at the priority of
\* inline plus 5; with normalize_whitespace last, fenced_code_block at the
\* priority of normalize_whitespace minus 5.
C6_HalfTheDefaultGap ==
    (lastOp = "ext") =>
        /\ ~InlineHasPredecessor =>
              PriorityOf(treeprocessors, "hilite")
                  = PriorityOf(treeprocessors, "inline") + Dbl(5)
        /\ ~WhitespaceHasSuccessor =>
              PriorityOf(preprocessors, "fenced_code_block")
                  = PriorityOf(preprocessors, "normalize_whitespace") - Dbl(5)

\* C6 as stated: plus 10 and minus 10.
C6_TheDefaultGap ==
    (lastOp = "ext") =>
        /\ ~InlineHasPredecessor =>
              PriorityOf(treeprocessors, "hilite")
                  = PriorityOf(treeprocessors, "inline") + Dbl(10)
        /\ ~WhitespaceHasSuccessor =>
              PriorityOf(preprocessors, "fenced_code_block")
                  = PriorityOf(preprocessors, "normalize_whitespace") - Dbl(10)

C6_Witness ==
    /\ lastOp = "ext"
    /\ ~InlineHasPredecessor
    /\ ~WhitespaceHasSuccessor

-----------------------------------------------------------------------------
(* C7 *)

\* C7: with a pass before inline, hilite is registered at the arithmetic
\* midpoint of the two priorities, and with a pass after normalize_whitespace,
\* fenced_code_block at the midpoint of those two, for every pair of priorities.
C7_Midpoint ==
    (lastOp = "ext") =>
        /\ InlineHasPredecessor =>
              2 * PriorityOf(treeprocessors, "hilite")
                  = InlinePredecessor.priority + PriorityOf(treeprocessors, "inline")
        /\ WhitespaceHasSuccessor =>
              2 * PriorityOf(preprocessors, "fenced_code_block")
                  = PriorityOf(preprocessors, "normalize_whitespace")
                      + WhitespaceSuccessor.priority

\* an odd difference on both lists, and a hilite pass that was removed first
C7_Witness ==
    /\ lastOp = "ext"
    /\ "hilite" \in warnings
    /\ InlineHasPredecessor
    /\ InlinePredecessor.priority - PriorityOf(treeprocessors, "inline") = Dbl(5)
    /\ WhitespaceHasSuccessor
    /\ PriorityOf(preprocessors, "normalize_whitespace")
          - WhitespaceSuccessor.priority = Dbl(5)

-----------------------------------------------------------------------------
(* C9 *)

Nodes == DOMAIN tree0

\* a pre element whose only child is one code element, in the tree handed in
WasCodeBlock(n) ==
    /\ tree0[n].tag = "pre"
    /\ Len(tree0[n].kids) = 1
    /\ tree0[tree0[n].kids[1]].tag = "code"

IsChildOf(c, n) == \E k \in 1..Len(tree0[n].kids) : tree0[n].kids[k] = c

\* a is an element above n in the tree handed in
RECURSIVE IsAbove(_, _)
IsAbove(a, n) ==
    \E q \in Nodes : IsChildOf(n, q) /\ (q = a \/ IsAbove(a, q))

\* n lies below a pre element that is itself a code block
InsideCodeBlock(n) == \E a \in Nodes : WasCodeBlock(a) /\ IsAbove(a, n)

\* the element holds a placeholder of its own whose entry is the highlighted
\* text of its code child
HoldsHighlighted(n) ==
    /\ tree[n].kids = <<>>
    /\ tree[n].tag = "p"
    /\ \E k \in (Len(stash0) + 1)..Len(stash) :
          /\ tree[n].text = Placeholder(k - 1)
          /\ stash[k] = highlight(tree0[tree0[n].kids[1]].text, None)
          /\ \A o \in Nodes \ {n} : tree[o].text # Placeholder(k - 1)

Keeps(n) ==
    /\ tree[n].tag = tree0[n].tag
    /\ tree[n].text = tree0[n].text
    /\ tree[n].kids = tree0[n].kids

\* C9 as stated: every pre element whose only child is one code element ends
\* as a childless p holding a fresh placeholder for the highlighted text of the
\* code child; every other element keeps tag, text and children, and no entry
\* is stored for it.
C9_EveryCodeBlockReplaced ==
    (tpc = "done") =>
        /\ \A n \in Nodes : IF WasCodeBlock(n) THEN HoldsHighlighted(n) ELSE Keeps(n)
        /\ SubSeq(stash, 1, Len(stash0)) = stash0
        /\ Len(stash) - Len(stash0) = Cardinality({n \in Nodes : WasCodeBlock(n)})

\* C9 as amended: the same of the code blocks that do not lie inside another
\* code block; a code block inside another one leaves the tree with it and
\* keeps tag, text and children, and no entry is stored for it.
C9_OutermostCodeBlocksReplaced ==
    (tpc = "done") =>
        /\ \A n \in Nodes :
              IF WasCodeBlock(n) /\ ~InsideCodeBlock(n)
              THEN HoldsHighlighted(n) ELSE Keeps(n)
        /\ SubSeq(stash, 1, Len(stash0)) = stash0
        /\ Len(stash) - Len(stash0)
              = Cardinality({n \in Nodes : WasCodeBlock(n) /\ ~InsideCodeBlock(n)})

C9_Witness ==
    /\ tpc = "done"
    /\ Len(stash) = Len(stash0) + 1
    /\ stash0 # <<>>
    /\ \E n \in Nodes : tree0[n].tag = "pre" /\ Len(tree0[n].kids) = 0

=============================================================================
